---- MODULE Spec2Model ----
(***************************************************************************)
(* imagegen: a command-line client that sends a prompt to OpenRouter and    *)
(* writes the returned image to disk.  src/generate.mjs holds two scripts:  *)
(* the first (lines 1-105) always calls the images API and retries without  *)
(* b64_json; the second (lines 107-268) dispatches on the model identifier  *)
(* between the images API and the chat-completion endpoint.  One run of one *)
(* script is modelled: its position, its locals, what it printed, what it   *)
(* sent and what it wrote.  Remote responses are the environment's choice;   *)
(* they do not carry the credential, and writeFileSync succeeds.            *)
(***************************************************************************)
EXTENDS Integers, Sequences, FiniteSets

\* ------------------------------------------------------------------ bounds
MaxArgs == 3
MaxImages == 2
MaxParts == 2

\* --------------------------------------------------------------- constants
PreviewMax == 300
ExitOK == 0
ExitFail == 1

\* JavaScript's undefined, for a value that is a string when present.
UNDEF == "<undefined>"

DefaultModel == "google/gemini-2.5-flash-image"
DefaultOutput == "output.png"
DefaultSize == "1024x1024"

ValueFlags == {"--model", "--output", "--size"}
HelpFlag == "--help"

\* The tokens an argument list is drawn from.
Tokens == {"--model", "--output", "--size", "--help", "", "cat", "openai/dall-e-3"}

\* The credential as dotenv leaves it in process.env: "" stands for an absent
\* or empty OPENROUTER_API_KEY.
Credentials == {"", "sk-or-secret", "sk-or-other"}

Scripts == {1, 2}

RECURSIVE SeqsUpTo(_, _)
SeqsUpTo(S, n) ==
  IF n = 0 THEN {<<>>}
  ELSE LET shorter == SeqsUpTo(S, n - 1)
       IN shorter \cup {Append(s, x) : s \in {t \in shorter : Len(t) = n - 1}, x \in S}

\* Every argument list of up to MaxArgs tokens: the inputs of the runs that are
\* followed up to their first request (SpecArgs).
ArgLists == SeqsUpTo(Tokens, MaxArgs)

\* The invocations followed to their end (Spec): no argument, --help, and a
\* prompt with at most one option before or after it.
Options ==
  {<<"--model", "openai/dall-e-3">>, <<"--output", "cat.png">>, <<"--size", "1792x1024">>}
Invocations ==
  {<<>>, <<"--help">>, <<"cat">>}
  \cup {<<"cat">> \o o : o \in Options}
  \cup {o \o <<"cat">> : o \in Options}

Range(s) == {s[k] : k \in 1..Len(s)}

\* ------------------------------------------------------- string operations
\* !x for a string-or-undefined x.
Falsy(x) == x \in {UNDEF, ""}

\* model.includes("dall-e")
IncludesDalle(m) == m \in {"openai/dall-e-3"}

\* args[k], undefined past the end.
ArgAt(a, k) == IF k \in 1..Len(a) THEN a[k] ELSE UNDEF

\* s.startsWith("data:")
StartsWithData(s) ==
  s \in {"data:image/png;base64,Qg==", "data:image/png;base64,Qw==", "data:nocomma"}

\* s.split(",")[1]
AfterComma(s) ==
  CASE s = "data:image/png;base64,Qg==" -> "Qg=="
    [] s = "data:image/png;base64,Qw==" -> "Qw=="
    [] OTHER -> UNDEF

\* Buffer.from(s, "base64") for a string s: the decoded bytes.  Characters
\* outside the base64 alphabet are skipped, so every string decodes.
Base64Decode(s) ==
  CASE s = "QQ==" -> "A"
    [] s = "Qg==" -> "B"
    [] s = "Qw==" -> "C"
    [] OTHER -> "stray-bytes"

\* buffer.length
ByteLen(b) ==
  CASE b \in {"A", "B", "C"} -> 1
    [] b = "png-bytes" -> 2048
    [] b = "not-found-page" -> 512
    [] OTHER -> 3

\* path.resolve(output), as the text printed and the path written.
Resolve(p) == <<"/cwd", p>>

\* err.message.includes("b64_json")
TypeErrorNoB64 == "Cannot read properties of undefined (reading 'b64_json')"
TypeErrorNoUrl == "Cannot read properties of undefined (reading 'url')"
TypeErrorNoType == "Cannot read properties of null (reading 'type')"
TypeErrorBuffer == "The first argument must be of type string or an instance of Buffer. Received undefined"
UnsupportedFormat == "400 response_format b64_json is not supported by this model"
MentionsB64(msg) == msg \in {TypeErrorNoB64, UnsupportedFormat}

\* err.message || err
ErrText(msg) == IF Falsy(msg) THEN "[object Error]" ELSE msg

\* ------------------------------------------------------------ remote data
ImagesEndpoint == "https://openrouter.ai/api/v1/images/generations"
ChatEndpoint == "https://openrouter.ai/api/v1/chat/completions"

Request(kind, target, mdl, prm, sz, fmt, auth) ==
  [kind |-> kind, target |-> target, model |-> mdl, prompt |-> prm,
   size |-> sz, format |-> fmt, auth |-> auth]

\* What client.images.generate can come back with: data[0].b64_json, data[0].url
\* instead, an empty data list, or a rejection carrying a message.
ErrorMessages == {UnsupportedFormat, "401 No auth credentials found", ""}
ImagesReplies ==
  {[kind |-> "images", outcome |-> "b64", val |-> v] : v \in {"QQ==", "Qg=="}}
  \cup {[kind |-> "images", outcome |-> "url", val |-> "https://cdn.example/r.png"]}
  \cup {[kind |-> "images", outcome |-> "empty", val |-> UNDEF]}
  \cup {[kind |-> "images", outcome |-> "error", val |-> m] : m \in ErrorMessages}

\* What fetch(url) of an image can come back with.
FetchReplies ==
  {[kind |-> "fetch", outcome |-> "error", ok |-> FALSE, body |-> "fetch failed"],
   [kind |-> "fetch", outcome |-> "response", ok |-> TRUE, body |-> "png-bytes"],
   [kind |-> "fetch", outcome |-> "response", ok |-> FALSE, body |-> "not-found-page"]}

\* Entries of message.images and message.content.
Str(s) == [form |-> "string", type |-> UNDEF, val |-> s]
Obj(t, u) == [form |-> "object", type |-> t, val |-> u]
Null == [form |-> "null", type |-> UNDEF, val |-> UNDEF]

ImageEntries ==
  {Str("QQ=="), Str("data:image/png;base64,Qg=="), Str("data:nocomma"),
   Obj("image_url", "data:image/png;base64,Qw=="),
   Obj("image_url", "https://cdn.example/a.png"),
   Obj("image_url", UNDEF),
   Null}

ContentParts ==
  {Obj("image_url", "data:image/png;base64,Qw=="),
   Obj("image_url", "https://cdn.example/b.png"),
   Obj("image_url", UNDEF),
   Obj("text", UNDEF),
   Str("QQ=="),
   Null}

\* Lengths of a textual message.content.
TextLens == {0, 12, 300, 301}

\* message.images: not an array, or a list.
ImagesChoices ==
  {[array |-> FALSE, items |-> <<>>]}
  \cup {[array |-> TRUE, items |-> l] : l \in SeqsUpTo(ImageEntries, MaxImages)}

\* message.content: absent, a string of some length, or a list of parts.
ContentChoices ==
  {[kind |-> "absent", len |-> 0, parts |-> <<>>]}
  \cup {[kind |-> "text", len |-> n, parts |-> <<>>] : n \in TextLens}
  \cup {[kind |-> "list", len |-> 0, parts |-> l] : l \in SeqsUpTo(ContentParts, MaxParts)}

Messages == [images : ImagesChoices, content : ContentChoices]
NoMessage == [images |-> [array |-> FALSE, items |-> <<>>],
              content |-> [kind |-> "absent", len |-> 0, parts |-> <<>>]]

\* What the chat-completion fetch can come back with: a rejected fetch, a body
\* that is not JSON, a non-2xx status, a body without choices[0].message, or a
\* message.
ChatReplies ==
  {[kind |-> "chat", outcome |-> o, ok |-> FALSE, hasMessage |-> FALSE, message |-> NoMessage]
     : o \in {"error", "badjson"}}
  \cup {[kind |-> "chat", outcome |-> "response", ok |-> k, hasMessage |-> FALSE, message |-> NoMessage]
     : k \in BOOLEAN}
  \cup {[kind |-> "chat", outcome |-> "response", ok |-> TRUE, hasMessage |-> TRUE, message |-> m]
     : m \in Messages}

\* -------------------------------------------------------------------- state
VARIABLES
  script,      \* which of the two scripts runs
  cred,        \* process.env.OPENROUTER_API_KEY
  args,        \* process.argv.slice(2)
  pc,          \* position of the script
  i,           \* the loop index, 1-based
  prompt, model, output, size,
  requests,    \* outbound network calls, in order
  stdout, stderr,
  writes,      \* writeFileSync calls that completed, in order
  exitCode,    \* process exit status once pc = "done"
  thrown,      \* message of the error caught while handling the first images reply
  replies,     \* the remote responses received, replies[k] answering requests[k]
  message,     \* data.choices[0].message of the chat reply
  origin       \* where the pending image URL came from

vars == <<script, cred, args, pc, i, prompt, model, output, size, requests,
          stdout, stderr, writes, exitCode, thrown, replies, message, origin>>

Running == -1

Line(tag, text, n) == [tag |-> tag, text |-> text, n |-> n]

Start(argLists) ==
  /\ script \in Scripts
  /\ cred \in Credentials
  /\ args \in argLists
  /\ pc = "start"
  /\ i = 1
  /\ prompt = ""
  /\ model = DefaultModel
  /\ output = DefaultOutput
  /\ size = DefaultSize
  /\ requests = <<>>
  /\ stdout = <<>>
  /\ stderr = <<>>
  /\ writes = <<>>
  /\ exitCode = Running
  /\ thrown = UNDEF
  /\ replies = <<>>
  /\ message = NoMessage
  /\ origin = "none"

Init == Start(Invocations)
InitArgs == Start(ArgLists)

\* ------------------------------------------------------ credential check
\* if (!OPENROUTER_API_KEY) { console.error(...); process.exit(1); }
CredentialMissing(c) == Falsy(c)

LoadCredential ==
  /\ pc = "start"
  /\ IF CredentialMissing(cred)
     THEN /\ stderr' = Append(stderr, Line("no-key", <<"Error: OPENROUTER_API_KEY not set in ~/.config/openrouter/.env">>, 0))
          /\ exitCode' = ExitFail
          /\ pc' = "done"
     ELSE /\ pc' = "parse"
          /\ UNCHANGED <<stderr, exitCode>>
  /\ UNCHANGED <<script, cred, args, i, prompt, model, output, size, requests,
                 stdout, writes, thrown, replies, message, origin>>

\* --------------------------------------------------------- argument loop
\* args[i] === flag && args[i + 1]
TakesValue(a, k, flag) == ArgAt(a, k) = flag /\ ~Falsy(ArgAt(a, k + 1))

\* A help test that looks for another spelling of the flag.
IsHelpShort(tok) == tok = "-h"

\* args[i] === "--help"
IsHelp(tok) == tok = HelpFlag

\* if (!prompt) prompt = args[i];
CapturePrompt(p, tok) == IF Falsy(p) THEN tok ELSE p

\* One iteration of the for loop over args.
ParseArg ==
  /\ pc = "parse"
  /\ i <= Len(args)
  /\ UNCHANGED <<script, cred, args, requests, stderr, writes, thrown, replies, message, origin>>
  /\ IF TakesValue(args, i, "--model")
     THEN /\ model' = args[i + 1]
          /\ i' = i + 2
          /\ UNCHANGED <<pc, prompt, output, size, stdout, exitCode>>
     ELSE IF TakesValue(args, i, "--output")
     THEN /\ output' = args[i + 1]
          /\ i' = i + 2
          /\ UNCHANGED <<pc, prompt, model, size, stdout, exitCode>>
     ELSE IF TakesValue(args, i, "--size")
     THEN /\ size' = args[i + 1]
          /\ i' = i + 2
          /\ UNCHANGED <<pc, prompt, model, output, stdout, exitCode>>
     ELSE IF IsHelp(args[i])
     THEN /\ stdout' = Append(stdout, Line("usage", <<"Usage: node generate.mjs \"prompt\" [options]">>, 0))
          /\ exitCode' = ExitOK
          /\ pc' = "done"
          /\ UNCHANGED <<i, prompt, model, output, size>>
     ELSE /\ prompt' = CapturePrompt(prompt, args[i])
          /\ i' = i + 1
          /\ UNCHANGED <<pc, model, output, size, stdout, exitCode>>


\* ---------------------------------------------------------------- effects
\* What one run of the script between two awaits does: the lines it prints,
\* the file writes and requests it makes, where it stops and with what status.
Effect(out, err, wr, send, nextpc, code, org) ==
  [out |-> out, err |-> err, writes |-> wr, sends |-> send, pc |-> nextpc,
   exit |-> code, origin |-> org]

Apply(e) ==
  /\ stdout' = stdout \o e.out
  /\ stderr' = stderr \o e.err
  /\ writes' = writes \o e.writes
  /\ requests' = requests \o e.sends
  /\ pc' = e.pc
  /\ exitCode' = e.exit
  /\ origin' = e.origin

\* console.error(...); process.exit(1);
Fatal(tag, text, n) ==
  Effect(<<>>, <<Line(tag, text, n)>>, <<>>, <<>>, "done", ExitFail, "none")

\* A catch handler that dumps the client's configuration with the error.
CaughtLeaky(msg) == Fatal("error", <<"Error:", ErrText(msg), "apiKey:", cred>>, 0)

\* catch (err) { console.error("Error:", err.message || err); process.exit(1); }
Caught(msg) == Fatal("error", <<"Error:", ErrText(msg)>>, 0)

WriteRec(out, buffer) == [path |-> Resolve(out), bytes |-> buffer]
SavedLine(out, buffer) == Line("saved", <<"Saved to">> \o Resolve(out), ByteLen(buffer))

\* writeFileSync(outPath, buffer); console.log(`Saved to ...`); then the lines
\* printed after it, and the script runs off its end.
Saved(out, buffer, more) ==
  Effect(<<SavedLine(out, buffer)>> \o more, <<>>, <<WriteRec(out, buffer)>>, <<>>,
         "done", ExitOK, "none")

\* const res = await fetch(url)
FetchImage(url, org) ==
  Effect(<<>>, <<>>, <<>>, <<Request("fetch", url, UNDEF, UNDEF, UNDEF, UNDEF, UNDEF)>>,
         "fetch", Running, org)

\* ---------------------------------------------------- prompt check, dispatch
\* const isDalle = model.includes("dall-e"); the first script has no such test
\* and always calls client.images.generate.
UsesImagesApi(s, m) == s = 1 \/ IncludesDalle(m)

\* A prompt test that catches a missing prompt but not an empty one.
PromptUndefined(p) == p = UNDEF

\* if (!prompt) { console.error(...); process.exit(1); }
PromptMissing(p) == Falsy(p)

Banner(s, p, m, sz) ==
  <<Line("banner", <<"Generating image...">>, 0), Line("banner", <<"Model:", m>>, 0)>>
  \o (IF s = 1 THEN <<Line("banner", <<"Size:", sz>>, 0)>> ELSE <<>>)
  \o <<Line("banner", <<"Prompt:", p>>, 0)>>

ImagesRequest(c, p, m, sz, fmt) ==
  Request("images.generate", ImagesEndpoint, m, p, sz, fmt, c)

ChatRequest(c, p, m) ==
  Request("chat", ChatEndpoint, m, p, UNDEF, UNDEF, c)

DispatchEffect(s, c, p, m, sz) ==
  IF PromptMissing(p)
  THEN Fatal("no-prompt", <<"Error: provide a prompt as first argument">>, 0)
  ELSE IF UsesImagesApi(s, m)
  THEN Effect(Banner(s, p, m, sz), <<>>, <<>>, <<ImagesRequest(c, p, m, sz, "b64_json")>>,
              "images", Running, "none")
  ELSE Effect(Banner(s, p, m, sz), <<>>, <<>>, <<ChatRequest(c, p, m)>>,
              "chat", Running, "none")

\* From the end of the argument loop to the first await.
Dispatch ==
  /\ pc = "parse"
  /\ i > Len(args)
  /\ Apply(DispatchEffect(script, cred, prompt, model, size))
  /\ UNCHANGED <<script, cred, args, i, prompt, model, output, size, thrown, replies, message>>

\* ------------------------------------------------ client.images.generate
\* What the try body throws on the first reply, UNDEF when it throws nothing:
\* a rejection's message, or the TypeError of reading b64_json.
FirstThrown(r) ==
  CASE r.outcome = "b64" -> UNDEF
    [] r.outcome = "url" -> TypeErrorBuffer
    [] r.outcome = "empty" -> TypeErrorNoB64
    [] r.outcome = "error" -> r.val

\* if (err.message?.includes("b64_json")): only the first script retries.
RetriesOn(s, r) == s = 1 /\ r.outcome # "b64" /\ MentionsB64(FirstThrown(r))

ImagesEffect(s, c, p, m, o, sz, r) ==
  IF r.outcome = "b64"
  THEN Saved(o, Base64Decode(r.val), <<>>)
  ELSE IF RetriesOn(s, r)
  THEN Effect(<<Line("retry", <<"Retrying with url format...">>, 0)>>, <<>>, <<>>,
              <<ImagesRequest(c, p, m, sz, UNDEF)>>, "retry", Running, "none")
  ELSE Caught(FirstThrown(r))

RecvImages ==
  /\ pc = "images"
  /\ \E r \in ImagesReplies :
       /\ Apply(ImagesEffect(script, cred, prompt, model, output, size, r))
       /\ thrown' = FirstThrown(r)
       /\ replies' = Append(replies, r)
  /\ UNCHANGED <<script, cred, args, i, prompt, model, output, size, message>>

\* The retry of the first script: response.data[0].url, fetched when truthy;
\* when it is not, the if has no else and the script runs off its end.
RetryEffect(r) ==
  CASE r.outcome = "url" -> FetchImage(r.val, "retry")
    [] r.outcome = "b64" -> Effect(<<>>, <<>>, <<>>, <<>>, "done", ExitOK, "none")
    [] r.outcome = "empty" -> Caught(TypeErrorNoUrl)
    [] r.outcome = "error" -> Caught(r.val)

RecvRetry ==
  /\ pc = "retry"
  /\ \E r \in ImagesReplies :
       /\ Apply(RetryEffect(r))
       /\ replies' = Append(replies, r)
  /\ UNCHANGED <<script, cred, args, i, prompt, model, output, size, thrown, message>>

\* ------------------------------------------------------- chat completion
\* A preview that is not cut.
SliceNothing(n, max) == n

\* s.slice(0, max).length for a string of length n
Slice(n, max) == IF n < max THEN n ELSE max

\* JSON.stringify(part).length
PartLen(part) ==
  CASE part.form = "null" -> 4
    [] part.form = "string" -> 12
    [] part.form = "object" /\ part.type = "text" -> 15
    [] OTHER -> 20

RECURSIVE PartsLen(_, _)
PartsLen(parts, k) ==
  IF k > Len(parts) THEN 0
  ELSE PartLen(parts[k]) + (IF k < Len(parts) THEN 1 ELSE 0) + PartsLen(parts, k + 1)

\* The text after "Text:": message.content.slice(0, 300) for a string,
\* JSON.stringify(message.content)?.slice(0, 300) otherwise, which prints as
\* "undefined" when there is no content.
PreviewLen(content) ==
  CASE content.kind = "text" -> Slice(content.len, PreviewMax)
    [] content.kind = "list" -> Slice(2 + PartsLen(content.parts, 1), PreviewMax)
    [] OTHER -> 9

\* if (message.content) console.log(`  Caption: ...`): the trimmed text of a
\* string, nothing after the label for a list.
Caption(content) ==
  CASE content.kind = "text" /\ content.len > 0 ->
         <<Line("caption", <<"Caption:", "text">>, content.len)>>
    [] content.kind = "list" -> <<Line("caption", <<"Caption:", "">>, 0)>>
    [] OTHER -> <<>>

\* Buffer.from(b64, "base64") where b64 may be undefined, which throws.
DecodeOrThrow(o, b64, more) ==
  IF b64 = UNDEF THEN Caught(TypeErrorBuffer) ELSE Saved(o, Base64Decode(b64), more)

\* What becomes of the entry img of message.images (lines 212-239).
ImageEffect(o, msg, img) ==
  LET cap == Caption(msg.content)
  IN IF img.form = "string"
     THEN DecodeOrThrow(o, IF StartsWithData(img.val) THEN AfterComma(img.val) ELSE img.val, cap)
     ELSE IF img.form = "object" /\ ~Falsy(img.val)
     THEN IF StartsWithData(img.val)
          THEN DecodeOrThrow(o, AfterComma(img.val), cap)
          ELSE FetchImage(img.val, "images")
     ELSE Fatal("undecodable", <<"Could not decode image from response">>, 0)

\* Taking the last entry of message.images instead of the first.
LastImageEffect(o, msg) == ImageEffect(o, msg, msg.images.items[Len(msg.images.items)])

\* const img = images[0];
FirstImageEffect(o, msg) == ImageEffect(o, msg, msg.images.items[1])

\* console.error("No image found in response."); console.error("Text:", ...)
NoImageEffect(content) ==
  Effect(<<>>,
         <<Line("no-image", <<"No image found in response.">>, 0),
           Line("preview", <<"Text:">>, PreviewLen(content))>>,
         <<>>, <<>>, "done", ExitFail, "none")

\* part.type === "image_url" && part.image_url?.url
IsImagePart(part) == part.form = "object" /\ part.type = "image_url" /\ ~Falsy(part.val)

\* for (const part of message.content): the first image part is saved and the
\* loop left; reading .type of a null part throws.
RECURSIVE ScanContent(_, _, _)
ScanContent(o, content, k) ==
  IF k > Len(content.parts) THEN NoImageEffect(content)
  ELSE LET part == content.parts[k]
       IN IF part.form = "null" THEN Caught(TypeErrorNoType)
          ELSE IF IsImagePart(part)
          THEN IF StartsWithData(part.val) /\ ~Falsy(AfterComma(part.val))
               THEN Saved(o, Base64Decode(AfterComma(part.val)), <<>>)
               ELSE FetchImage(part.val, "content")
          ELSE ScanContent(o, content, k + 1)

\* Array.isArray(images) && images.length > 0
HasImagesList(msg) == msg.images.array /\ Len(msg.images.items) > 0

MessageEffect(o, msg) ==
  IF HasImagesList(msg) THEN FirstImageEffect(o, msg)
  ELSE IF msg.content.kind = "list" THEN ScanContent(o, msg.content, 1)
  ELSE NoImageEffect(msg.content)

ChatEffect(o, r) ==
  CASE r.outcome = "error" -> Caught("fetch failed")
    [] r.outcome = "badjson" -> Caught("Unexpected token < in JSON at position 0")
    [] r.outcome = "response" /\ ~r.ok -> Fatal("api-error", <<"API Error:", "{error}">>, 0)
    [] r.outcome = "response" /\ r.ok /\ ~r.hasMessage ->
         Fatal("no-message", <<"No message in response">>, 0)
    [] OTHER -> MessageEffect(o, r.message)

RecvChat ==
  /\ pc = "chat"
  /\ \E r \in ChatReplies :
       /\ Apply(ChatEffect(output, r))
       /\ message' = r.message
       /\ replies' = Append(replies, r)
  /\ UNCHANGED <<script, cred, args, i, prompt, model, output, size, thrown>>

\* ------------------------------------------------------------ fetch(url)
\* const res = await fetch(url); buffer = Buffer.from(await res.arrayBuffer());
\* res.ok is not looked at.  After a fetch for message.images the caption is
\* printed as after an inline image.
FetchedEffect(o, org, msg, r) ==
  IF r.outcome = "error" THEN Caught(r.body)
  ELSE Saved(o, r.body, IF org = "images" THEN Caption(msg.content) ELSE <<>>)

RecvFetch ==
  /\ pc = "fetch"
  /\ \E r \in FetchReplies :
       /\ Apply(FetchedEffect(output, origin, message, r))
       /\ replies' = Append(replies, r)
  /\ UNCHANGED <<script, cred, args, i, prompt, model, output, size, thrown, message>>

\* ------------------------------------------------------------------- runs
Next ==
  \/ LoadCredential
  \/ ParseArg
  \/ Dispatch
  \/ RecvImages
  \/ RecvRetry
  \/ RecvChat
  \/ RecvFetch

Spec == Init /\ [][Next]_vars

\* Every argument list, each run followed up to its first request.
NextArgs ==
  \/ LoadCredential
  \/ ParseArg
  \/ Dispatch

SpecArgs == InitArgs /\ [][NextArgs]_vars

\* ================================================================ claims
UsagePrinted == \E k \in 1..Len(stdout) : stdout[k].tag = "usage"
LoopDone == pc = "parse" /\ i > Len(args)
Sent(kind) == {k \in 1..Len(requests) : requests[k].kind = kind}

\* The scan of a from position k comes to a --help token it does not take as
\* the value of a preceding --model, --output or --size.
RECURSIVE ReachesHelp(_, _)
ReachesHelp(a, k) ==
  IF k > Len(a) THEN FALSE
  ELSE IF a[k] \in ValueFlags /\ k < Len(a) /\ a[k + 1] # "" THEN ReachesHelp(a, k + 2)
  ELSE IF a[k] = HelpFlag THEN TRUE
  ELSE ReachesHelp(a, k + 1)

\* C1, as stated: whenever --help is among the arguments, whatever the others
\* and whatever the credential, no request is ever sent and the run ends with
\* the usage text and status 0.
C1_HelpAnywhere ==
  HelpFlag \in Range(args) =>
    /\ requests = <<>>
    /\ ~LoopDone
    /\ pc = "done" => (exitCode = ExitOK /\ UsagePrinted)

\* C1, amended: when the credential is present and the scan reaches a --help
\* token that no preceding --model, --output or --size takes as its value, no
\* request is ever sent, the loop does not run to its end, and the run ends
\* with the usage text, nothing on stderr and status 0; when the credential is
\* absent the run ends with status 1 without the usage text and without a
\* request.
C1_HelpReached ==
  /\ (~Falsy(cred) /\ ReachesHelp(args, 1)) =>
       /\ requests = <<>>
       /\ ~LoopDone
       /\ pc = "done" => (exitCode = ExitOK /\ UsagePrinted /\ stderr = <<>>)
  /\ (Falsy(cred) /\ pc = "done") =>
       (exitCode = ExitFail /\ ~UsagePrinted /\ requests = <<>>)

\* --help handled after a prompt and an option were scanned.
C1_Witness ==
  /\ pc = "done" /\ exitCode = ExitOK /\ UsagePrinted
  /\ ~Falsy(cred) /\ ReachesHelp(args, 1)
  /\ Len(args) = 3 /\ ~Falsy(prompt) /\ i = 3 /\ args[3] = HelpFlag

\* C2: a request is only ever sent with a credential and a prompt; a run whose
\* credential is absent or empty, or whose loop ended with an empty prompt,
\* ends with a non-zero status and has sent nothing.
C2_ChecksPrecedeRequests ==
  /\ requests # <<>> => (~Falsy(cred) /\ ~Falsy(prompt))
  /\ pc \in {"images", "chat"} => (~Falsy(cred) /\ ~Falsy(prompt))
  /\ (pc = "done" /\ (Falsy(cred) \/ (i > Len(args) /\ Falsy(prompt)))) =>
       (exitCode # ExitOK /\ exitCode # Running /\ requests = <<>>)

\* The credential is there, the arguments hold only an option and its value,
\* and the run has ended on the prompt check.
C2_Witness ==
  /\ pc = "done" /\ exitCode = ExitFail /\ ~Falsy(cred)
  /\ Len(args) = 2 /\ i > Len(args) /\ Falsy(prompt) /\ model = args[2]
  /\ requests = <<>> /\ \E k \in 1..Len(stderr) : stderr[k].tag = "no-prompt"

\* The prompt the claim describes: each --model, --output or --size takes the
\* token after it, and the first token left over that is no flag is the prompt.
RECURSIVE FirstPositional(_, _)
FirstPositional(a, k) ==
  IF k > Len(a) THEN ""
  ELSE IF a[k] \in ValueFlags THEN FirstPositional(a, k + 2)
  ELSE IF a[k] = HelpFlag THEN FirstPositional(a, k + 1)
  ELSE a[k]

\* C9, as stated: without --help, once the loop has run to its end the prompt
\* is the first token that is neither a flag nor a flag's value, and never a
\* flag.
C9_PromptIsFirstPositional ==
  (LoopDone /\ ~Falsy(cred) /\ HelpFlag \notin Range(args)) =>
    /\ prompt = FirstPositional(args, 1)
    /\ prompt \notin ValueFlags

\* The first reply has been handled and it answered an images request.
ImagesHandled == Len(replies) >= 1 /\ replies[1].kind = "images"
Retries == {k \in Sent("images.generate") : requests[k].format = UNDEF}

\* C3, as stated: on the images path there is at most one retry; once a first
\* reply that rejects with a message mentioning b64_json is handled there is a
\* retry, and there is none unless the error caught mentions b64_json; the URL
\* the retry returns is the one fetched, and the bytes fetched are the bytes
\* written.
C3_RetryOnB64Error ==
  /\ Cardinality(Retries) <= 1
  /\ (ImagesHandled /\ replies[1].outcome = "error" /\ MentionsB64(replies[1].val)) =>
       Retries = {2}
  /\ Retries # {} => (ImagesHandled /\ MentionsB64(thrown))
  /\ (Retries # {} /\ Len(replies) >= 2 /\ replies[2].outcome = "url") =>
       (Len(requests) = 3 /\ requests[3].kind = "fetch" /\ requests[3].target = replies[2].val)
  /\ (Retries # {} /\ Len(replies) = 3 /\ replies[3].outcome = "response") =>
       writes = <<WriteRec(output, replies[3].body)>>

\* C4, as stated: the first request goes to the images API, with prompt, model,
\* size and the b64_json format, exactly when the model identifier contains
\* "dall-e", and to the chat endpoint with the prompt otherwise; no run calls
\* both.
C4_DispatchByModel ==
  requests # <<>> =>
    /\ requests[1].kind = "images.generate" <=> IncludesDalle(model)
    /\ requests[1].kind = "images.generate" =>
         requests[1] = Request("images.generate", ImagesEndpoint, model, prompt, size, "b64_json", cred)
    /\ requests[1].kind # "images.generate" =>
         requests[1] = Request("chat", ChatEndpoint, model, prompt, UNDEF, UNDEF, cred)
    /\ Sent("images.generate") = {} \/ Sent("chat") = {}

\* The chat reply carried a message and it has been handled.
MessageHandled ==
  /\ Len(replies) >= 1 /\ replies[1].kind = "chat"
  /\ replies[1].outcome = "response" /\ replies[1].ok /\ replies[1].hasMessage

\* An entry in a form the claim calls recognized: a plain string, or an object
\* with a nested URL.
Recognized(e) == e.form = "string" \/ (e.form = "object" /\ ~Falsy(e.val))
\* A content part tagged as an image reference, with a nested URL.
TaggedImage(e) == e.form = "object" /\ e.type = "image_url" /\ ~Falsy(e.val)
\* An entry whose bytes are in the reply, and those bytes when they decode.
Inline(e) == e.form = "string" \/ StartsWithData(e.val)
Payload(e) == IF StartsWithData(e.val) THEN AfterComma(e.val) ELSE e.val
Decodable(e) == Inline(e) /\ Payload(e) # UNDEF
InlineBytes(e) == Base64Decode(Payload(e))

\* The list the claim has inspected: message.images, or message.content when
\* message.images is absent or empty.
Inspected(msg) == IF HasImagesList(msg) THEN msg.images.items ELSE msg.content.parts

FirstIn(l, P(_)) ==
  IF \E k \in 1..Len(l) : P(l[k])
  THEN CHOOSE k \in 1..Len(l) : P(l[k]) /\ \A j \in 1..(k - 1) : ~P(l[j])
  ELSE 0

IsNull(e) == e.form = "null"
ImageOrNull(e) == TaggedImage(e) \/ IsNull(e)
NoNullEntry(msg) ==
  /\ \A k \in 1..Len(msg.images.items) : ~IsNull(msg.images.items[k])
  /\ \A k \in 1..Len(msg.content.parts) : ~IsNull(msg.content.parts[k])

\* C5, as stated, for messages whose lists hold no null entry: the image used
\* is the first entry in a recognized form of message.images, or the first
\* image reference of message.content when message.images is absent or empty:
\* any fetch is of its URL, any bytes written are its bytes, and when its bytes
\* are in the reply the run ends having written them.
C5_FirstRecognizedImage ==
  (MessageHandled /\ NoNullEntry(message)) =>
    LET l == Inspected(message)
        k == IF HasImagesList(message) THEN FirstIn(l, Recognized)
             ELSE FirstIn(l, TaggedImage)
    IN k > 0 =>
         /\ \A r \in Sent("fetch") : ~Inline(l[k]) /\ requests[r].target = l[k].val
         /\ \A w \in 1..Len(writes) : Inline(l[k]) => writes[w].bytes = InlineBytes(l[k])
         /\ (pc = "done" /\ Decodable(l[k])) => Len(writes) = 1

\* The one entry the run may use, 0 when there is none: the first entry of a
\* non-empty message.images when it is in a recognized form; otherwise the first
\* content part tagged image_url with a URL, unless a null part precedes it.
UsedEntry(msg) ==
  IF HasImagesList(msg)
  THEN IF Recognized(msg.images.items[1]) THEN 1 ELSE 0
  ELSE LET k == FirstIn(msg.content.parts, ImageOrNull)
       IN IF k > 0 /\ TaggedImage(msg.content.parts[k]) THEN k ELSE 0

\* C5, amended: of a non-empty message.images only the first entry is looked
\* at, and message.content is then not looked at; it is used when it is a
\* string or an object with a nested URL, and otherwise the run fails.  When
\* message.images is absent or empty the content parts are scanned in order and
\* the first part tagged image_url with a URL is used, unless a null part comes
\* before it.  A run writes at most once and fetches at most once; a fetch is
\* of the used entry's URL; bytes written are the used entry's bytes, decoded
\* from the reply or fetched; with no entry to use the run writes nothing and
\* ends with a non-zero status.
C5_FirstEntryOnly ==
  MessageHandled =>
    LET l == Inspected(message)
        k == UsedEntry(message)
    IN /\ Len(writes) <= 1
       /\ Cardinality(Sent("fetch")) <= 1
       /\ k = 0 => /\ writes = <<>>
                   /\ Sent("fetch") = {}
                   /\ pc = "done" /\ exitCode = ExitFail
       /\ k > 0 =>
            /\ \A r \in Sent("fetch") : ~Inline(l[k]) /\ requests[r].target = l[k].val
            /\ ~Inline(l[k]) => Sent("fetch") = {2}
            /\ \A w \in 1..Len(writes) :
                 writes[w] = WriteRec(output, IF Inline(l[k]) THEN InlineBytes(l[k])
                                              ELSE replies[2].body)
            /\ Decodable(l[k]) => (pc = "done" /\ exitCode = ExitOK /\ Len(writes) = 1)
            /\ (Inline(l[k]) /\ ~Decodable(l[k])) =>
                 (pc = "done" /\ exitCode = ExitFail /\ writes = <<>>)

\* message.images holds two different usable images and message.content a
\* third; the run has ended having written one file.
C5_Witness ==
  /\ MessageHandled /\ pc = "done" /\ Len(writes) = 1
  /\ Len(message.images.items) = 2
  /\ Decodable(message.images.items[1]) /\ Decodable(message.images.items[2])
  /\ InlineBytes(message.images.items[1]) # InlineBytes(message.images.items[2])
  /\ \E j \in 1..Len(message.content.parts) : TaggedImage(message.content.parts[j])

Previews == {k \in 1..Len(stderr) : stderr[k].tag = "preview"}

\* The message holds no image: no entry of message.images is in a recognized
\* form and no part of message.content is tagged image_url with a URL.
NoImageAnywhere(msg) ==
  /\ \A k \in 1..Len(msg.images.items) : ~Recognized(msg.images.items[k])
  /\ \A k \in 1..Len(msg.content.parts) : ~TaggedImage(msg.content.parts[k])

\* C6, as stated, for messages whose lists hold no null entry and whose content
\* is a non-empty text: a run whose message holds no image ends with a non-zero status, no file written, and a
\* preview of at most 300 characters on stderr.
C6_NoImagePreview ==
  (/\ pc = "done" /\ MessageHandled /\ NoNullEntry(message) /\ NoImageAnywhere(message)
   /\ message.content.kind = "text" /\ message.content.len > 0) =>
    /\ exitCode = ExitFail
    /\ writes = <<>>
    /\ \E k \in Previews : stderr[k].n <= PreviewMax

\* C6, amended: when message.images is absent or empty and message.content has
\* no part tagged image_url with a URL and no null part, the run ends with a
\* non-zero status, no file written, and one preview on stderr: the first 300
\* characters of a textual content, and at most 300 characters otherwise.  When
\* message.images is non-empty and its first entry is in no recognized form, or
\* a null part precedes every image part of message.content, the run also ends
\* with a non-zero status and no file, with an error on stderr but no preview.
C6_PreviewWhenNothingToScan ==
  (pc = "done" /\ MessageHandled) =>
    LET parts == message.content.parts
        plain == /\ ~HasImagesList(message)
                 /\ \A k \in 1..Len(parts) : ~ImageOrNull(parts[k])
        stuck == \/ HasImagesList(message) /\ ~Recognized(message.images.items[1])
                 \/ /\ ~HasImagesList(message)
                    /\ FirstIn(parts, ImageOrNull) > 0
                    /\ IsNull(parts[FirstIn(parts, ImageOrNull)])
    IN /\ plain =>
            /\ exitCode = ExitFail /\ writes = <<>>
            /\ Cardinality(Previews) = 1
            /\ \A k \in Previews :
                 /\ stderr[k].n <= PreviewMax
                 /\ message.content.kind = "text" =>
                      stderr[k].n = (IF message.content.len <= PreviewMax
                                     THEN message.content.len ELSE PreviewMax)
       /\ stuck => (exitCode = ExitFail /\ writes = <<>> /\ Previews = {} /\ stderr # <<>>)

\* A textual content longer than the preview, and nothing else in the message.
C6_Witness ==
  /\ pc = "done" /\ MessageHandled /\ ~HasImagesList(message)
  /\ message.content.kind = "text" /\ message.content.len > PreviewMax
  /\ \E k \in Previews : stderr[k].n = PreviewMax

\* A reply that is a failure of its network call: a rejected call, a body that
\* is not JSON, a non-success status, or a body without a message.
Failed(r) ==
  \/ r.outcome \in {"error", "badjson"}
  \/ r.kind \in {"fetch", "chat"} /\ r.outcome = "response" /\ ~r.ok
  \/ r.kind = "chat" /\ r.outcome = "response" /\ ~r.hasMessage

\* C7, as stated: a run that has ended after a failed network call has a
\* message on stderr, a non-zero status and no file written.  (A first images
\* call that failed and was retried is not the call the run ended on.)
C7_FailuresAreFatal ==
  (pc = "done" /\ replies # <<>> /\ Failed(replies[Len(replies)])) =>
    (stderr # <<>> /\ exitCode = ExitFail /\ writes = <<>>)

\* C8, as stated: never more than one write, and a run that has ended has
\* status 0 exactly when it handled --help or wrote the file once.
C8_ExitZeroIffWritten ==
  /\ Len(writes) <= 1
  /\ pc = "done" => (exitCode = ExitOK <=> (UsagePrinted \/ Len(writes) = 1))

Lines == Range(stdout) \cup Range(stderr)

\* C10: with a credential loaded, no line on stdout or stderr holds it and no
\* file written holds it; it is sent only as the authorization of the requests
\* to the images and chat endpoints, and the fetch of an image URL carries none.
C10_CredentialNeverPrinted ==
  ~Falsy(cred) =>
    /\ \A l \in Lines : cred \notin Range(l.text)
    /\ \A w \in 1..Len(writes) : writes[w].bytes # cred /\ cred \notin Range(writes[w].path)
    /\ \A k \in 1..Len(requests) :
         /\ cred \notin {requests[k].target, requests[k].model, requests[k].prompt,
                         requests[k].size, requests[k].format}
         /\ requests[k].auth = (IF requests[k].kind = "fetch" THEN UNDEF ELSE cred)

\* A run that sent the credential and then ended on an error with a message on
\* stderr.
C10_Witness ==
  /\ pc = "done" /\ exitCode = ExitFail /\ ~Falsy(cred)
  /\ requests # <<>> /\ requests[1].auth = cred
  /\ \E k \in 1..Len(stderr) : stderr[k].tag = "error"
====
